---- MODULE Spec2Model ----
(***************************************************************************)
(* Stream compaction (copy_if) of the legacy cudf table API: the host      *)
(* orchestration copy_if(table), the kernels compute_block_counts and      *)
(* scatter_kernel, scatter_functor and get_output_size.                    *)
(*                                                                         *)
(* The launch geometry is scaled down: the source has warp_size = 32,      *)
(* block_size = 256 and per_thread = 32; the model keeps the structure     *)
(* (block_size a multiple of warp_size, at least two warps per block,      *)
(* at least two tiles per block) with a 3-bit validity word.               *)
(*                                                                         *)
(* A validity word is modelled as the set of its set bit positions         *)
(* (0..warp_size-1): atomicOr is set union, __popc is Cardinality,         *)
(* __ballot_sync collects the lanes whose predicate is true.               *)
(***************************************************************************)
EXTENDS Integers, Sequences, FiniteSets, TLC

\* ---- launch geometry (scaled) -------------------------------------------
warp_size == 3
block_size == 6
per_thread == 2
num_warps == block_size \div warp_size

\* ---- bounds of the checked input family ---------------------------------
MaxRows == 13
MaxCols == 2
MaxStride == 2
MaxNullStride == 2
MaxClampRows == 2

VARIABLES
  input,              \* the input table: [num_rows, cols]
  filter,             \* the set of indices for which the Filter returns true
  pc,                 \* host position inside copy_if
  col,                \* host loop variable of the scatter loop (1-based)
  stream,             \* operations issued on the stream and not yet executed
  running,            \* TRUE while the kernel at the head of the stream runs
  block_counts,       \* device: temp_counts[0 .. num_blocks)
  block_offsets,      \* device: temp_counts[num_blocks .. 2*num_blocks)
  done_blocks,        \* blocks of compute_block_counts that have finished
  blk,                \* per block state of the running scatter_kernel
  null_count,         \* device: per column null counter (scatter_functor)
  last_block_count,   \* host: get_output_size locals
  last_block_offset,
  output_size,        \* host: result of get_output_size
  output,             \* the table built by copy_if (sequence of columns)
  ret,                \* what copy_if returned: none/empty/copy/output/error
  issued,             \* how many times each kind of device work was issued
  writes,             \* global stores of the running scatter_kernel
  reads,              \* filter calls and input loads of the latest kernel
  device_error,       \* TRUE once the device has raised a (sticky) error
  overload,           \* the copy_if called: "table" or "column" (gdf_column)
  col_ret,            \* what copy_if(gdf_column) returned: none/column/error
  gathered,           \* output columns for which nvcategory_gather was called
  clamp,              \* the state of a call of clamp (clamp.cu)
  threads             \* the threads of one block of scatter_kernel, one by one

vars == <<input, filter, pc, col, stream, running, block_counts, block_offsets,
          done_blocks, blk, null_count, last_block_count, last_block_offset,
          output_size, output, ret, issued, writes, reads, device_error, overload,
          col_ret, gathered, clamp, threads>>

\* the variables of copy_if
copy_if_vars ==
  <<input, filter, pc, col, stream, running, block_counts, block_offsets,
    done_blocks, blk, null_count, last_block_count, last_block_offset,
    output_size, output, ret, issued, writes, reads, device_error, overload,
    col_ret, gathered>>

\* ---- values -------------------------------------------------------------
Uninit == -1            \* content of a freshly allocated, unwritten buffer
DTypes == <<"GDF_INT32", "GDF_STRING_CATEGORY", "GDF_FLOAT64">>

\* gdf_column: data pointer (has_data = non-null), valid pointer (has_valid =
\* non-null; valid is the set of rows whose validity bit is set), null_count.
\* The dtype of the checked columns rotates with the column index and the
\* number of rows.
Column(c, n, hasData, hasValid, nullRows) ==
  [dtype      |-> DTypes[((c + n) % Len(DTypes)) + 1],
   size       |-> n,
   has_data   |-> hasData,
   data       |-> [i \in 0..(n - 1) |-> 100 * c + i],
   has_valid  |-> hasValid,
   valid      |-> IF hasValid THEN (0..(n - 1)) \ nullRows ELSE {},
   null_count |-> IF hasValid THEN Cardinality(nullRows) ELSE 0]

num_rows == input.num_rows
num_columns == Len(input.cols)

\* the Filter functor: by contract false for every index out of bounds
Filter(i) == i \in filter

\* bit_mask::is_valid(input_valid, tid)
is_valid(c, i) == i \in input.cols[c].valid

\* variant: every column is scattered by the has_validity specialisation
is_nullable_always(c) == TRUE

\* cudf::is_nullable(input_column)
is_nullable(c) == input.cols[c].has_valid

\* cudf::util::cuda::grid_config_1d{n, block_size, per_thread}.num_blocks
grid_num_blocks(n) ==
  (n + block_size * per_thread - 1) \div (block_size * per_thread)

num_blocks == grid_num_blocks(num_rows)
Blocks == 0..(num_blocks - 1)
Lanes == 0..(block_size - 1)

\* variant: the tiles of a block advance by one row less than a tile holds
tid_short_stride(b, i, t) ==
  t + per_thread * block_size * b + i * (block_size - 1)

\* ---- compute_block_counts -----------------------------------------------
\* the row handled by thread t of block b in tile i
tid(b, i, t) == t + per_thread * block_size * b + i * block_size

\* the threads of block b whose row passes in tile i
Pass(b, i) == {t \in Lanes : Filter(tid(b, i, t))}

\* __syncthreads_count(filter(tid)) summed over the per_thread tiles
RECURSIVE count_tiles(_, _)
count_tiles(b, i) ==
  IF i = per_thread THEN 0
  ELSE Cardinality(Pass(b, i)) + count_tiles(b, i + 1)

\* variant: only the first tile of the block is counted
compute_block_counts_first_tile(b) == Cardinality(Pass(b, 0))

\* "count" of block b after the loop over its per_thread tiles
compute_block_counts(b) == count_tiles(b, 0)

\* ---- cub::DeviceScan::ExclusiveSum over the block counts ----------------
RECURSIVE prefix_sum(_, _)
prefix_sum(counts, i) ==
  IF i = 0 THEN 0 ELSE prefix_sum(counts, i - 1) + counts[i - 1]

\* variant: an inclusive prefix sum
InclusiveSum(counts) == [i \in DOMAIN counts |-> prefix_sum(counts, i + 1)]

\* block_offsets[i] = block_counts[0] + ... + block_counts[i - 1]
ExclusiveSum(counts) == [i \in DOMAIN counts |-> prefix_sum(counts, i)]


\* variant: an inclusive instead of an exclusive block scan
block_scan_mask_inclusive(b, i, t) == Cardinality({u \in Pass(b, i) : u <= t})

\* ---- block_scan_mask and the staging part of a scatter_kernel tile ------
\* BlockScan::ExclusiveSum(mask_true, offset, block_sum)
block_scan_mask(b, i, t) == Cardinality({u \in Pass(b, i) : u < t})
block_sum(b, i) == Cardinality(Pass(b, i))

\* "temp_data[local_index] = input_data[tid]" by every passing thread; the
\* other slots of the shared array keep what they held
stage_data(old, c, b, i) ==
  [s \in Lanes |->
     IF \E t \in Pass(b, i) : block_scan_mask(b, i, t) = s
     THEN input.cols[c].data[
            tid(b, i, CHOOSE t \in Pass(b, i) : block_scan_mask(b, i, t) = s)]
     ELSE old[s]]

\* variant: every passing thread sets its bool, valid row or not
stage_valids_unchecked(c, b, i, off) ==
  {block_scan_mask(b, i, t) + (off % warp_size) : t \in Pass(b, i)}

\* the indices of temp_valids (block_size + warp_size bools, all false after
\* the init) that the passing threads with a valid row set to true
stage_valids(c, b, i, off) ==
  {block_scan_mask(b, i, t) + (off % warp_size) :
     t \in {u \in Pass(b, i) : is_valid(c, tid(b, i, u))}}

\* "const int last_warp = block_sum / warp_size"
last_warp(sum) == sum \div warp_size

\* "int valid_index = (block_offset / warp_size) + wid"
valid_index(off, wid) == (off \div warp_size) + wid

\* __ballot_sync(0xffffffff, temp_valids[threadIdx.x]) of warp wid
valid_warp(tv, wid) ==
  {lane \in 0..(warp_size - 1) : (wid * warp_size + lane) \in tv}

\* __ballot_sync(0xffffffff, temp_valids[block_size + threadIdx.x]) of warp 0
extra_warp(tv) ==
  {lane \in 0..(warp_size - 1) : (block_size + lane) \in tv}

\* the warps that enter "if (block_sum > 0 && wid <= last_warp)"
active_warp(sum, wid) == sum > 0 /\ wid <= last_warp(sum)


\* variant: the first word of the tile is stored like an interior word
plain_store_from_first(sum, wid) == wid < last_warp(sum)

\* variant: the last word of the tile is stored like an interior word
plain_store_through_last(sum, wid) == wid > 0 /\ wid <= last_warp(sum)

\* "if (wid > 0 && wid < last_warp)": plain store, else atomicOr
plain_store(sum, wid) == wid > 0 /\ wid < last_warp(sum)

\* "if ((wid == 0) && (last_warp == num_warps))": one more warp to cover
covers_extra_warp(sum, wid) == wid = 0 /\ last_warp(sum) = num_warps

\* ---- table construction services (cudf/copying.hpp) ---------------------
\* words of a validity mask that covers n rows
num_valid_words(n) == (n + warp_size - 1) \div warp_size

\* validity bit k of a mask held as words
bit_is_set(words, k) ==
  /\ (k \div warp_size) \in DOMAIN words
  /\ (k % warp_size) \in words[k \div warp_size]

\* pack the set of valid rows of a column of n rows into words
pack_valid(rows, n) ==
  [w \in 0..(num_valid_words(n) - 1) |->
     {lane \in 0..(warp_size - 1) : (w * warp_size + lane) \in rows}]

\* empty_like(table): same columns and types, no rows, no buffers
empty_like(t) ==
  [c \in 1..Len(t.cols) |->
     [dtype |-> t.cols[c].dtype, size |-> 0, has_data |-> FALSE,
      data |-> <<>>, has_valid |-> FALSE, valid |-> <<>>, null_count |-> 0]]

\* cudf::copy(table): a full copy of every column
copy(t) ==
  [c \in 1..Len(t.cols) |->
     [dtype |-> t.cols[c].dtype, size |-> t.cols[c].size,
      has_data |-> t.cols[c].has_data, data |-> t.cols[c].data,
      has_valid |-> t.cols[c].has_valid,
      valid |-> IF t.cols[c].has_valid
                THEN pack_valid(t.cols[c].valid, t.cols[c].size) ELSE <<>>,
      null_count |-> t.cols[c].null_count]]

\* cudf::allocate_like(table, new_size, true, stream): data of new_size
\* elements, a zeroed mask where the input has one, null_count 0
allocate_like(t, size) ==
  [c \in 1..Len(t.cols) |->
     [dtype |-> t.cols[c].dtype, size |-> size, has_data |-> TRUE,
      data |-> [k \in 0..(size - 1) |-> Uninit],
      has_valid |-> t.cols[c].has_valid,
      valid |-> IF t.cols[c].has_valid
                THEN [w \in 0..(num_valid_words(size) - 1) |-> {}] ELSE <<>>,
      null_count |-> 0]]

\* ---- the stream ----------------------------------------------------------
Op(name, c) == [op |-> name, c |-> c]
HeadIs(name) == ~device_error /\ stream /= <<>> /\ Head(stream).op = name
Bump(kind) == [issued EXCEPT ![kind] = @ + 1]

IssuedKinds == {"alloc_counts", "count_kernel", "scan", "memset_offsets",
                "sync", "copy", "allocate_like", "alloc_null_count",
                "scatter_kernel", "empty_like"}


\* variant: only the row count is tested
is_degenerate_rows_only == 0 = num_rows

\* ---- host: copy_if(table const&, Filter, stream) ------------------------
\* "if (0 == input.num_rows() || 0 == input.num_columns())"
is_degenerate == 0 = num_rows \/ 0 = num_columns


\* variant: std::any_of instead of std::all_of
any_has_data == \E c \in 1..num_columns : input.cols[c].has_data

\* std::all_of(input.begin(), input.end(), c->data != nullptr)
all_have_data == \A c \in 1..num_columns : input.cols[c].has_data


\* variant: the pass-through test can never succeed
is_pass_through_beyond == output_size > num_rows

\* "if (output_size == input.num_rows())"
is_pass_through == output_size = num_rows


\* variant: an empty result is scattered too
needs_scatter_or_empty == output_size >= 0

\* "else if (output_size > 0)"
needs_scatter == output_size > 0

HostFrame ==
  UNCHANGED <<input, filter, running, done_blocks, blk, writes, reads, device_error,
              overload, col_ret, gathered, clamp, threads>>

EmptyInput ==
  /\ pc = "entry"
  /\ is_degenerate
  /\ output' = empty_like(input)
  /\ ret' = "empty"
  /\ pc' = "done"
  /\ issued' = Bump("empty_like")
  /\ HostFrame
  /\ UNCHANGED <<col, stream, block_counts, block_offsets, null_count,
                 last_block_count, last_block_offset, output_size>>

NullInputData ==
  /\ pc = "entry"
  /\ ~is_degenerate
  /\ ~all_have_data
  /\ ret' = "error"
  /\ pc' = "done"
  /\ HostFrame
  /\ UNCHANGED <<col, stream, block_counts, block_offsets, null_count,
                 last_block_count, last_block_offset, output_size, output,
                 issued>>

\* temp_counts(2 * num_blocks) and the launch of compute_block_counts
LaunchBlockCounts ==
  /\ pc = "entry"
  /\ ~is_degenerate
  /\ all_have_data
  /\ block_counts' = [b \in Blocks |-> 0]
  /\ block_offsets' = [b \in Blocks |-> 0]
  /\ stream' = Append(stream, Op("count", 0))
  /\ issued' = [issued EXCEPT !["alloc_counts"] = @ + 1,
                              !["count_kernel"] = @ + 1]
  /\ pc' = "scan"
  /\ HostFrame
  /\ UNCHANGED <<col, null_count, last_block_count, last_block_offset,
                 output_size, output, ret>>

\* step 2: ExclusiveSum when there is more than one block, else a memset
IssueScan ==
  /\ pc = "scan"
  /\ IF num_blocks > 1
     THEN /\ stream' = Append(stream, Op("scan", 0))
          /\ issued' = Bump("scan")
     ELSE /\ stream' = Append(stream, Op("memset_offsets", 0))
          /\ issued' = Bump("memset_offsets")
  /\ pc' = "get_output_size"
  /\ HostFrame
  /\ UNCHANGED <<col, block_counts, block_offsets, null_count,
                 last_block_count, last_block_offset, output_size, output,
                 ret>>

\* CHECK_STREAM(stream), then get_output_size: the two cudaMemcpyAsync, whose
\* return values are not looked at
GetOutputSizeIssue ==
  /\ pc = "get_output_size"
  /\ ~device_error
  /\ last_block_count' = 0
  /\ last_block_offset' = 0
  /\ stream' = IF num_blocks > 1
               THEN stream \o <<Op("d2h_count", 0), Op("d2h_offset", 0)>>
               ELSE Append(stream, Op("d2h_count", 0))
  /\ pc' = "synchronize"
  /\ HostFrame
  /\ UNCHANGED <<col, block_counts, block_offsets, null_count, output_size,
                 output, ret, issued>>


\* variant: the offset of the last block is forgotten
get_output_size_count_only == last_block_count

\* "return last_block_count + last_block_offset"
get_output_size == last_block_count + last_block_offset

\* get_output_size: cudaStreamSynchronize, whose return value is not looked
\* at, and the return
GetOutputSizeSync ==
  /\ pc = "synchronize"
  /\ stream = <<>>
  /\ output_size' = get_output_size
  /\ issued' = Bump("sync")
  /\ pc' = "branch"
  /\ HostFrame
  /\ UNCHANGED <<col, stream, block_counts, block_offsets, null_count,
                 last_block_count, last_block_offset, output, ret>>

ReturnCopy ==
  /\ pc = "branch"
  /\ is_pass_through
  /\ output' = copy(input)
  /\ ret' = "copy"
  /\ issued' = Bump("copy")
  /\ pc' = "done"
  /\ HostFrame
  /\ UNCHANGED <<col, stream, block_counts, block_offsets, null_count,
                 last_block_count, last_block_offset, output_size>>

AllocateOutput ==
  /\ pc = "branch"
  /\ ~is_pass_through
  /\ needs_scatter
  /\ output' = allocate_like(input, output_size)
  /\ issued' = Bump("allocate_like")
  /\ col' = 1
  /\ pc' = "scatter"
  /\ HostFrame
  /\ UNCHANGED <<stream, block_counts, block_offsets, null_count,
                 last_block_count, last_block_offset, output_size, ret>>

ReturnEmpty ==
  /\ pc = "branch"
  /\ ~is_pass_through
  /\ ~needs_scatter
  /\ output' = empty_like(input)
  /\ ret' = "empty"
  /\ issued' = Bump("empty_like")
  /\ pc' = "done"
  /\ HostFrame
  /\ UNCHANGED <<col, stream, block_counts, block_offsets, null_count,
                 last_block_count, last_block_offset, output_size>>

\* variant: the host never waits for the readback
waits_for_readback_never(c) == FALSE

\* "if (has_valid) CUDA_TRY(cudaMemcpyAsync(&output_column.null_count, ...))":
\* the destination is a field of a host gdf_column (pageable memory), and a
\* copy from the device to pageable host memory returns once it is complete
waits_for_readback(c) == is_nullable(c)

\* variant: the loop stops one column early
scatter_loop_done_early == col >= num_columns

\* "for (int col = 0; col < input.num_columns(); col++)" has ended
scatter_loop_done == col > num_columns

\* scatter_functor::operator() for column col: the null counter, the launch
\* and the readback of the null count
ScatterColumn ==
  /\ pc = "scatter"
  /\ ~scatter_loop_done
  /\ IF is_nullable(col)
     THEN /\ ~device_error
          /\ null_count' = [null_count EXCEPT ![col] = Uninit]
          /\ stream' = stream \o <<Op("memset_null_count", col),
                                   Op("scatter", col),
                                   Op("d2h_null_count", col)>>
          /\ issued' = [issued EXCEPT !["alloc_null_count"] = @ + 1,
                                      !["scatter_kernel"] = @ + 1]
     ELSE /\ null_count' = null_count
          /\ stream' = Append(stream, Op("scatter", col))
          /\ issued' = Bump("scatter_kernel")
  /\ pc' = IF waits_for_readback(col) THEN "readback" ELSE "scatter"
  /\ col' = col + 1
  /\ HostFrame
  /\ UNCHANGED <<block_counts, block_offsets, last_block_count,
                 last_block_offset, output_size, output, ret>>

\* the cudaMemcpyAsync of the null count returns: the stream has executed it
ReadbackDone ==
  /\ pc = "readback"
  /\ ~device_error
  /\ stream = <<>>
  /\ pc' = "scatter"
  /\ HostFrame
  /\ UNCHANGED <<col, stream, block_counts, block_offsets, null_count,
                 last_block_count, last_block_offset, output_size, output,
                 ret, issued>>

\* CHECK_STREAM(stream) and "return output"
ReturnOutput ==
  /\ pc = "scatter"
  /\ scatter_loop_done
  /\ ~device_error
  /\ ret' = "output"
  /\ pc' = "done"
  /\ HostFrame
  /\ UNCHANGED <<col, stream, block_counts, block_offsets, null_count,
                 last_block_count, last_block_offset, output_size, output,
                 issued>>

\* ---- host: copy_if(gdf_column const&, Filter, stream) --------------------
\* "if (out->dtype == GDF_STRING_CATEGORY)"
is_category(c) == c.dtype = "GDF_STRING_CATEGORY"

\* the one-column table has been filtered: nvcategory_gather for a category
\* column (its failure is fatal, CUDF_EXPECTS) and "return *out"; an error of
\* copy_if(table) propagates
ColumnReturn ==
  /\ overload = "column"
  /\ pc = "done"
  /\ col_ret = "none"
  /\ IF ret = "error"
     THEN col_ret' = "error" /\ gathered' = gathered
     ELSE IF is_category(output[1])
          THEN /\ gathered' = gathered \cup {1}
               /\ \E success \in BOOLEAN :
                    col_ret' = IF success THEN "column" ELSE "error"
          ELSE col_ret' = "column" /\ gathered' = gathered
  /\ UNCHANGED <<input, filter, pc, col, stream, running, block_counts,
                 block_offsets, done_blocks, blk, null_count,
                 last_block_count, last_block_offset, output_size, output,
                 ret, issued, writes, reads, device_error, overload, clamp, threads>>

\* ---- device: execution of the stream -------------------------------------
Pop == stream' = Tail(stream)

DevFrame ==
  UNCHANGED <<input, filter, pc, col, output_size, ret, issued, device_error,
              overload, col_ret, gathered, clamp, threads>>

\* a call of the filter or a load from an input buffer by thread t of block b
\* in tile i
Read(kind, c, b, i, t) ==
  [kind |-> kind, c |-> c, idx |-> tid(b, i, t), b |-> b, i |-> i, t |-> t]

\* "filter(tid)" by every thread of block b in each of its tiles
count_reads(b) ==
  {Read("filter", 0, b, i, t) : i \in 0..(per_thread - 1), t \in Lanes}

\* one block of compute_block_counts: "block_counts[blockIdx.x] = count"
CountBlock(b) ==
  /\ HeadIs("count")
  /\ b \in Blocks \ done_blocks
  /\ block_counts' = [block_counts EXCEPT ![b] = compute_block_counts(b)]
  /\ reads' = reads \cup count_reads(b)
  /\ IF done_blocks \cup {b} = Blocks
     THEN done_blocks' = {} /\ Pop
     ELSE done_blocks' = done_blocks \cup {b} /\ UNCHANGED stream
  /\ DevFrame
  /\ UNCHANGED <<running, block_offsets, blk, null_count, last_block_count,
                 last_block_offset, output, writes>>

\* cub::DeviceScan::ExclusiveSum(block_counts, block_offsets, num_blocks)
DeviceScan ==
  /\ HeadIs("scan")
  /\ block_offsets' = ExclusiveSum(block_counts)
  /\ Pop
  /\ DevFrame
  /\ UNCHANGED <<running, block_counts, done_blocks, blk, null_count,
                 last_block_count, last_block_offset, output, writes, reads>>

\* cudaMemsetAsync(block_offsets, 0, ...)
MemsetOffsets ==
  /\ HeadIs("memset_offsets")
  /\ block_offsets' = [b \in Blocks |-> 0]
  /\ Pop
  /\ DevFrame
  /\ UNCHANGED <<running, block_counts, done_blocks, blk, null_count,
                 last_block_count, last_block_offset, output, writes, reads>>

\* cudaMemcpyAsync(&last_block_count, &block_counts[num_blocks - 1])
CopyLastCount ==
  /\ HeadIs("d2h_count")
  /\ last_block_count' = block_counts[num_blocks - 1]
  /\ Pop
  /\ DevFrame
  /\ UNCHANGED <<running, block_counts, block_offsets, done_blocks, blk,
                 null_count, last_block_offset, output, writes, reads>>

\* cudaMemcpyAsync(&last_block_offset, &block_offsets[num_blocks - 1])
CopyLastOffset ==
  /\ HeadIs("d2h_offset")
  /\ last_block_offset' = block_offsets[num_blocks - 1]
  /\ Pop
  /\ DevFrame
  /\ UNCHANGED <<running, block_counts, block_offsets, done_blocks, blk,
                 null_count, last_block_count, output, writes, reads>>

\* cudaMemsetAsync(null_count, 0, sizeof(gdf_size_type))
MemsetNullCount ==
  /\ HeadIs("memset_null_count")
  /\ null_count' = [null_count EXCEPT ![Head(stream).c] = 0]
  /\ Pop
  /\ DevFrame
  /\ UNCHANGED <<running, block_counts, block_offsets, done_blocks, blk,
                 last_block_count, last_block_offset, output, writes, reads>>

\* cudaMemcpyAsync(&output_column.null_count, null_count)
CopyNullCount ==
  /\ HeadIs("d2h_null_count")
  /\ output' = [output EXCEPT ![Head(stream).c].null_count =
                                null_count[Head(stream).c]]
  /\ Pop
  /\ DevFrame
  /\ UNCHANGED <<running, block_counts, block_offsets, done_blocks, blk,
                 null_count, last_block_count, last_block_offset, writes, reads>>

\* ---- scatter_kernel ------------------------------------------------------
NoCounts == [w \in 0..(warp_size - 1) |-> 0]

\* the column scattered by the kernel at the head of the stream
scol == Head(stream).c

\* the global stores a tile performs once its shared arrays are staged:
\* the coalesced data store, the words of the active warps whose ballot is
\* not zero, and the extra word of a full tile
TileOps(nullable, sum, tv) ==
  (IF sum > 0 THEN {<<"data", 0>>} ELSE {})
  \cup
  (IF nullable
   THEN {<<"warp", wid>> : wid \in
           {w \in 0..(num_warps - 1) :
              active_warp(sum, w) /\ valid_warp(tv, w) /= {}}}
        \cup
        (IF /\ active_warp(sum, 0)
            /\ covers_extra_warp(sum, 0)
            /\ extra_warp(tv) /= {}
         THEN {<<"extra", 0>>} ELSE {})
   ELSE {})

\* the state of a block at the barrier of line 144 of tile i: filter, block
\* scan, init and staging of the shared arrays, warp_valid_counts zeroed
Stage(old_data, c, b, i, off) ==
  IF i = per_thread
  THEN [i |-> i, block_offset |-> off, block_sum |-> 0,
        temp_data |-> old_data, temp_valids |-> {},
        warp_valid_counts |-> NoCounts, todo |-> {}]
  ELSE LET sum == block_sum(b, i)
           tv == IF is_nullable(c) THEN stage_valids(c, b, i, off) ELSE {}
       IN [i |-> i, block_offset |-> off, block_sum |-> sum,
           temp_data |-> stage_data(old_data, c, b, i),
           temp_valids |-> tv,
           warp_valid_counts |-> NoCounts,
           todo |-> TileOps(is_nullable(c), sum, tv)]


\* variant: every thread loads its row, passing or not
tile_reads_unguarded(c, b, i) ==
  IF i = per_thread THEN {}
  ELSE {Read("filter", c, b, i, t) : t \in Lanes}
       \cup {Read("data", c, b, i, t) : t \in Lanes}
       \cup (IF is_nullable(c)
             THEN {Read("valid", c, b, i, t) : t \in Lanes} ELSE {})

\* tile i of block b: "filter(tid)" by every thread, "input_data[tid]" by
\* the passing threads and, with has_validity,
\* "bit_mask::is_valid(input_valid, tid)" by the passing threads
tile_reads(c, b, i) ==
  IF i = per_thread THEN {}
  ELSE {Read("filter", c, b, i, t) : t \in Lanes}
       \cup {Read("data", c, b, i, t) : t \in Pass(b, i)}
       \cup (IF is_nullable(c)
             THEN {Read("valid", c, b, i, t) : t \in Pass(b, i)} ELSE {})

\* variant: every block starts at offset 0
initial_block_offset_zero(b) == 0

\* "gdf_size_type block_offset = block_offsets[blockIdx.x]"
initial_block_offset(b) == block_offsets[b]

\* every block starts: "block_offset = block_offsets[blockIdx.x]" and the
\* staging of its first tile
BeginScatter ==
  /\ HeadIs("scatter")
  /\ ~running
  /\ running' = TRUE
  /\ blk' = [b \in Blocks |->
               Stage([s \in Lanes |-> Uninit], scol, b, 0,
                     initial_block_offset(b))]
  /\ writes' = {}
  /\ reads' = UNION {tile_reads(scol, b, 0) : b \in Blocks}
  /\ DevFrame
  /\ UNCHANGED <<stream, block_counts, block_offsets, done_blocks,
                 null_count, last_block_count, last_block_offset, output>>

Written(kind, idx, b, atomic) ==
  [kind |-> kind, idx |-> idx, b |-> b, i |-> blk[b].i, atomic |-> atomic]

ScatterFrame ==
  /\ DevFrame
  /\ UNCHANGED <<running, stream, block_counts, block_offsets, done_blocks,
                 last_block_count, last_block_offset, reads>>

\* variant: every thread of the block stores
storing_threads_all(sum) == Lanes

\* the threads that store: "if (threadIdx.x < block_sum)"
storing_threads(sum) == {t \in Lanes : t < sum}

\* "output_data[block_offset + threadIdx.x] = temp_data[threadIdx.x]"
StoreData(b) ==
  /\ HeadIs("scatter") /\ running
  /\ b \in Blocks
  /\ <<"data", 0>> \in blk[b].todo
  /\ LET c == scol
         off == blk[b].block_offset
         ts == storing_threads(blk[b].block_sum)
     IN /\ output' = [output EXCEPT ![c].data =
                        [k \in DOMAIN @ |->
                           IF (k - off) \in ts
                           THEN blk[b].temp_data[k - off] ELSE @[k]]]
        /\ writes' = writes \cup
                       {Written("data", off + t, b, FALSE) : t \in ts}
  /\ blk' = [blk EXCEPT ![b].todo = @ \ {<<"data", 0>>}]
  /\ ScatterFrame
  /\ UNCHANGED null_count

\* lane 0 of warp wid: warp_valid_counts[wid] = __popc(valid_warp) and the
\* plain store or atomicOr of the word
StoreValidWord(b, wid) ==
  /\ HeadIs("scatter") /\ running
  /\ b \in Blocks
  /\ <<"warp", wid>> \in blk[b].todo
  /\ LET c == scol
         word == valid_warp(blk[b].temp_valids, wid)
         w == valid_index(blk[b].block_offset, wid)
         plain == plain_store(blk[b].block_sum, wid)
     IN /\ output' = [output EXCEPT ![c].valid =
                        [x \in DOMAIN @ |->
                           IF x = w
                           THEN IF plain THEN word ELSE @[x] \cup word
                           ELSE @[x]]]
        /\ writes' = writes \cup {Written("valid", w, b, ~plain)}
        /\ blk' = [blk EXCEPT ![b].todo = @ \ {<<"warp", wid>>},
                              ![b].warp_valid_counts[wid] = Cardinality(word)]
  /\ ScatterFrame
  /\ UNCHANGED null_count

\* lane 0 of warp 0, after its own word: the extra warp of a full,
\* unaligned tile
StoreExtraWord(b) ==
  /\ HeadIs("scatter") /\ running
  /\ b \in Blocks
  /\ <<"extra", 0>> \in blk[b].todo
  /\ <<"warp", 0>> \notin blk[b].todo
  /\ LET c == scol
         word == extra_warp(blk[b].temp_valids)
         w == valid_index(blk[b].block_offset, 0) + num_warps
     IN /\ output' = [output EXCEPT ![c].valid =
                        [x \in DOMAIN @ |->
                           IF x = w THEN @[x] \cup word ELSE @[x]]]
        /\ writes' = writes \cup {Written("valid", w, b, TRUE)}
        /\ blk' = [blk EXCEPT ![b].todo = @ \ {<<"extra", 0>>},
                              ![b].warp_valid_counts[0] = @ + Cardinality(word)]
  /\ ScatterFrame
  /\ UNCHANGED null_count

\* cub::WarpReduce(...).Sum(warp_valid_counts[threadIdx.x])
RECURSIVE warp_reduce_sum(_, _)
warp_reduce_sum(counts, w) ==
  IF w = warp_size THEN 0 ELSE counts[w] + warp_reduce_sum(counts, w + 1)


\* variant: only the first warp's valid count is subtracted
tile_null_count_first_warp(sum, counts) == sum - counts[0]

\* "block_sum - block_valid_count", the tile's share of the null count
tile_null_count(sum, counts) == sum - warp_reduce_sum(counts, 0)

\* the end of a tile: after the barrier lane 0 adds the tile's nulls to the
\* global counter, then "block_offset += block_sum; tid += block_size" and
\* the staging of the next tile
EndTile(b) ==
  /\ HeadIs("scatter") /\ running
  /\ b \in Blocks
  /\ blk[b].i < per_thread
  /\ blk[b].todo = {}
  /\ LET c == scol
     IN /\ IF is_nullable(c)
           THEN /\ null_count' =
                     [null_count EXCEPT ![c] =
                        @ + tile_null_count(blk[b].block_sum,
                                            blk[b].warp_valid_counts)]
                /\ writes' = writes \cup {Written("null_count", 0, b, TRUE)}
           ELSE UNCHANGED <<null_count, writes>>
        /\ blk' = [blk EXCEPT ![b] =
                     Stage(@.temp_data, c, b, @.i + 1,
                           @.block_offset + @.block_sum)]
        /\ reads' = reads \cup tile_reads(c, b, blk[b].i + 1)
  /\ IF /\ blk[b].i = per_thread - 1
        /\ \A x \in Blocks \ {b} : blk[x].i = per_thread
     THEN running' = FALSE /\ Pop
     ELSE UNCHANGED <<running, stream>>
  /\ DevFrame
  /\ UNCHANGED <<block_counts, block_offsets, done_blocks, last_block_count,
                 last_block_offset, output>>

\* ---- scatter_kernel: the threads of block 0 and its barriers --------------
\* cub::BlockScan::ExclusiveSum of a block of more than one warp: every
\* thread passes a block-wide barrier between its call and its return
block_scan_steps == <<"sync_scan">>

Barriers == {"sync_count", "sync_scan", "sync124", "sync144", "sync188"}

\* what a thread of compute_block_counts does in one iteration of its loop:
\* "count += __syncthreads_count(filter(tid))", a block-wide barrier
count_steps == <<"filter", "sync_count">>


\* variant: no barrier between the staging and the stores
tile_steps_no_wait(nullable) ==
  <<"filter">> \o block_scan_steps
    \o (IF nullable THEN <<"init", "sync124">> ELSE <<>>)
    \o <<"stage", "store">>
    \o (IF nullable THEN <<"sync188", "reduce">> ELSE <<>>)

\* what a thread does in one iteration of "for (i = 0; i < per_thread; i++)":
\* filter and block scan, (has_validity) init of temp_valids and
\* __syncthreads, staging and the zeroing of warp_valid_counts,
\* __syncthreads, the stores, (has_validity) __syncthreads and the reduction
tile_steps(nullable) ==
  <<"filter">> \o block_scan_steps
    \o (IF nullable THEN <<"init", "sync124">> ELSE <<>>)
    \o <<"stage", "sync144", "store">>
    \o (IF nullable THEN <<"sync188", "reduce">> ELSE <<>>)

\* block_offset of block 0 in tile i: "block_offset += block_sum"
RECURSIVE tile_offset(_)
tile_offset(i) ==
  IF i = 0 THEN 0 ELSE tile_offset(i - 1) + block_sum(0, i - 1)

Access(arr, kind, i, t) == [arr |-> arr, kind |-> kind, i |-> i, t |-> t]

\* the accesses of thread t to the shared arrays in a step of tile i of
\* column 1: "w" init or staging, "r" read, "u" update of a warp's count
accesses(step, i, t) ==
  LET nullable == is_nullable(1)
      sum == block_sum(0, i)
      wid == t \div warp_size
      lane == t % warp_size
      tv == stage_valids(1, 0, i, tile_offset(i))
  IN  IF step = "init"
      THEN {Access("temp_valids", "w", i, t)}
      ELSE IF step = "stage"
      THEN (IF t \in Pass(0, i)
            THEN {Access("temp_data", "w", i, t)}
                 \cup (IF nullable /\ is_valid(1, tid(0, i, t))
                       THEN {Access("temp_valids", "w", i, t)} ELSE {})
            ELSE {})
           \cup (IF nullable /\ t < warp_size
                 THEN {Access("warp_valid_counts", "w", i, t)} ELSE {})
      ELSE IF step = "store"
      THEN (IF t < sum THEN {Access("temp_data", "r", i, t)} ELSE {})
           \cup (IF nullable /\ active_warp(sum, wid)
                 THEN {Access("temp_valids", "r", i, t)}
                      \cup (IF \/ lane = 0 /\ valid_warp(tv, wid) /= {}
                               \/ /\ covers_extra_warp(sum, wid)
                                  /\ lane = 0
                                  /\ extra_warp(tv) /= {}
                            THEN {Access("warp_valid_counts", "u", i, t)}
                            ELSE {})
                 ELSE {})
      ELSE IF step = "reduce"
      THEN (IF t < warp_size
            THEN {Access("warp_valid_counts", "r", i, t)} ELSE {})
      ELSE {}

\* the step thread t is at
kernel_steps ==
  IF threads.kernel = "count" THEN count_steps
  ELSE tile_steps(is_nullable(1))

step_of(t) == kernel_steps[threads.at[t]]


\* variant: the odd threads leave the loop one iteration early
in_loop_odd_short(t) == threads.i[t] < per_thread - (t % 2)

\* thread t is inside the loop "for (int i = 0; i < per_thread; i++)"
in_loop(t) == threads.i[t] < per_thread

\* thread t moves past the step it is at; after the last step of a tile:
\* "block_offset += block_sum; tid += block_size" and the next iteration
advance(t) ==
  IF threads.at[t] < Len(kernel_steps)
  THEN [at |-> threads.at[t] + 1, i |-> threads.i[t]]
  ELSE [at |-> 1, i |-> threads.i[t] + 1]

ThreadFrame == UNCHANGED copy_if_vars /\ UNCHANGED clamp

\* thread t executes the step it is at
ThreadStep(t) ==
  /\ t \in DOMAIN threads.at
  /\ in_loop(t)
  /\ step_of(t) \notin Barriers
  /\ threads' = [kernel |-> threads.kernel,
                 at |-> [threads.at EXCEPT ![t] = advance(t).at],
                 i |-> [threads.i EXCEPT ![t] = advance(t).i],
                 log |-> threads.log
                           \cup accesses(step_of(t), threads.i[t], t)]
  /\ ThreadFrame

\* __syncthreads: every thread of the block has arrived, all pass
SyncThreads ==
  /\ DOMAIN threads.at = Lanes
  /\ \A t \in Lanes : /\ in_loop(t)
                       /\ step_of(t) \in Barriers
                       /\ threads.at[t] = threads.at[0]
                       /\ threads.i[t] = threads.i[0]
  /\ threads' = [kernel |-> threads.kernel,
                 at |-> [t \in Lanes |-> advance(t).at],
                 i |-> [t \in Lanes |-> advance(t).i],
                 log |-> threads.log]
  /\ ThreadFrame

NoThreads == [kernel |-> "none", at |-> <<>>, i |-> <<>>, log |-> {}]

\* ---- device errors --------------------------------------------------------
\* a kernel running at the head of the stream faults (an illegal address in
\* the filter functor, a hardware fault): the kernel stops where it is and
\* the error is sticky
DeviceFault ==
  /\ ~device_error
  /\ stream /= <<>>
  /\ Head(stream).op \in {"count", "scatter"}
  /\ device_error' = TRUE
  /\ running' = FALSE
  /\ UNCHANGED <<input, filter, pc, col, stream, block_counts, block_offsets,
                 done_blocks, blk, null_count, last_block_count,
                 last_block_offset, output_size, output, ret, issued, writes, reads,
                 overload, col_ret, gathered, clamp, threads>>

\* after a device error the work left on the stream fails without effect
FlushFailed ==
  /\ device_error
  /\ stream /= <<>>
  /\ Pop
  /\ UNCHANGED <<input, filter, pc, col, running, block_counts, block_offsets,
                 done_blocks, blk, null_count, last_block_count,
                 last_block_offset, output_size, output, ret, issued, writes, reads,
                 device_error, overload, col_ret, gathered, clamp, threads>>

\* the places where the host looks at the error state: CHECK_STREAM (lines
\* 343 and 364) and the CUDA_TRY of scatter_functor (lines 232 and 246)
looks_at_error ==
  \/ pc = "get_output_size"
  \/ pc = "scatter" /\ (IF scatter_loop_done THEN TRUE ELSE is_nullable(col))
  \/ pc = "readback"

CudaTryError ==
  /\ device_error
  /\ looks_at_error
  /\ ret' = "error"
  /\ pc' = "done"
  /\ HostFrame
  /\ UNCHANGED <<col, stream, block_counts, block_offsets, null_count,
                 last_block_count, last_block_offset, output_size, output,
                 issued>>

\* ---- clamp (src/cpp/src/replace/clamp.cu) --------------------------------
\* variant: the type of the input column is not compared
types_match_scalars_only ==
  /\ clamp.lo.type = clamp.hi.type
  /\ clamp.lo_replace.type = clamp.hi_replace.type
  /\ clamp.lo.type = clamp.lo_replace.type

\* the four CUDF_EXPECTS on the types at the entry of detail::clamp
types_match ==
  /\ clamp.lo.type = clamp.hi.type
  /\ clamp.lo_replace.type = clamp.hi_replace.type
  /\ clamp.lo.type = clamp.lo_replace.type
  /\ clamp.lo.type = clamp.input.type

\* "(not lo.is_valid() and not hi.is_valid()) or (input.is_empty())"
no_change ==
  (~clamp.lo.valid /\ ~clamp.hi.valid) \/ clamp.input.size = 0

\* "if (lo.is_valid()) CUDF_EXPECTS(lo_replace.is_valid(), ...)" and the same
\* for hi
replacements_valid ==
  /\ clamp.lo.valid => clamp.lo_replace.valid
  /\ clamp.hi.valid => clamp.hi_replace.valid

ClampFrame == UNCHANGED copy_if_vars /\ UNCHANGED threads

\* a CUDF_EXPECTS on the types fails
ClampTypeMismatch ==
  /\ clamp.pc = "entry"
  /\ ~types_match
  /\ clamp' = [clamp EXCEPT !.pc = "done", !.ret = "error"]
  /\ ClampFrame

\* "There will be no change": a copy of the input column is returned
ClampNoChange ==
  /\ clamp.pc = "entry"
  /\ types_match
  /\ no_change
  /\ clamp' = [clamp EXCEPT !.pc = "done", !.ret = "copy", !.allocated = TRUE]
  /\ ClampFrame

\* "lo_replace can't be null" / "hi_replace can't be null"
ClampNullReplace ==
  /\ clamp.pc = "entry"
  /\ types_match
  /\ ~no_change
  /\ ~replacements_valid
  /\ clamp' = [clamp EXCEPT !.pc = "done", !.ret = "error"]
  /\ ClampFrame

\* type_dispatcher(input.type(), dispatch_clamp{}, ...)
ClampDispatch ==
  /\ clamp.pc = "entry"
  /\ types_match
  /\ ~no_change
  /\ replacements_valid
  /\ clamp' = [clamp EXCEPT !.pc = "clamper", !.dispatched = TRUE]
  /\ ClampFrame

\* clamper<T>: the output column is allocated and the transform applied
Clamper ==
  /\ clamp.pc = "clamper"
  /\ clamp' = [clamp EXCEPT !.pc = "done", !.ret = "column",
                            !.allocated = TRUE, !.transformed = TRUE]
  /\ ClampFrame

\* the checked calls of clamp
ClampTypes == {"INT32", "STRING"}
Scalars == [type : ClampTypes, valid : BOOLEAN]

ClampCalls ==
  [input : [type : ClampTypes, size : 0..MaxClampRows],
   lo : Scalars, lo_replace : Scalars, hi : Scalars, hi_replace : Scalars,
   pc : {"entry"}, ret : {"none"}, dispatched : {FALSE},
   allocated : {FALSE}, transformed : {FALSE}]

\* no call of clamp
NoClamp == [pc |-> "idle"]

\* ---- clamp_string_column ---------------------------------------------------
\* string_view::operator<: byte-wise lexicographic order (bytes are numbers)
RECURSIVE Less(_, _)
Less(a, b) ==
  IF b = <<>> THEN FALSE
  ELSE IF a = <<>> THEN TRUE
  ELSE IF Head(a) /= Head(b) THEN Head(a) < Head(b)
  ELSE Less(Tail(a), Tail(b))

\* "if (lo_valid and hi_valid) ... else if (hi_valid) ... else ..."
branch ==
  IF clamp.lo.valid /\ clamp.hi.valid THEN "both"
  ELSE IF clamp.hi.valid THEN "hi" ELSE "lo"

\* the string an element is clamped to, as both lambdas of a branch decide it
clamped(element) ==
  IF branch /= "hi" /\ Less(element, clamp.lo.str) THEN clamp.lo_replace.str
  ELSE IF branch /= "lo" /\ Less(clamp.hi.str, element)
       THEN clamp.hi_replace.str
  ELSE element

\* offsets_transformer(string_view element, bool is_valid = true)
offsets_transformer(element, valid) ==
  IF valid THEN Len(clamped(element)) ELSE 0

\* the elements form_offsets_and_char_column hands to the transformer: for a
\* nullable input make_null_replacement_iterator(input, string_view{}), else
\* input.begin<string_view>(); the iterator yields the element only, so the
\* second parameter of the transformer keeps its default
offsets_element(i) ==
  IF clamp.nullable /\ ~clamp.rows[i].valid THEN <<>> ELSE clamp.rows[i].str

row_bytes(i) == offsets_transformer(offsets_element(i), TRUE)

\* make_offsets_child_column: offsets[k] = bytes of the rows 1..k
RECURSIVE byte_offset(_)
byte_offset(k) == IF k = 0 THEN 0 ELSE byte_offset(k - 1) + row_bytes(k)

StringFrame == UNCHANGED copy_if_vars /\ UNCHANGED threads

\* form_offsets_and_char_column: the offsets child and an unwritten chars
\* child of offsets[strings_count] bytes
FormOffsets ==
  /\ clamp.pc = "strings"
  /\ clamp' = [clamp EXCEPT
                 !.pc = "fill",
                 !.offsets = [k \in 0..Len(clamp.rows) |-> byte_offset(k)],
                 !.chars = [k \in 0..(byte_offset(Len(clamp.rows)) - 1) |->
                              [val |-> Uninit, by |-> {}]]]
  /\ StringFrame

\* copy_transformer(idx): nothing for a null row, else the memcpy of the
\* clamped string to d_chars + d_offsets[idx]
CopyString(idx) ==
  /\ clamp.pc = "fill"
  /\ idx \in (1..Len(clamp.rows)) \ clamp.copied
  /\ LET src == IF clamp.rows[idx].valid
                THEN clamped(clamp.rows[idx].str) ELSE <<>>
         at == clamp.offsets[idx - 1]
     IN clamp' = [clamp EXCEPT
                    !.copied = @ \cup {idx},
                    !.chars = [k \in DOMAIN @ |->
                                 IF at <= k /\ k < at + Len(src)
                                 THEN [val |-> src[k - at + 1],
                                       by |-> @[k].by \cup {idx}]
                                 ELSE @[k]]]
  /\ StringFrame

\* thrust::for_each_n has finished: make_strings_column
MakeStringsColumn ==
  /\ clamp.pc = "fill"
  /\ clamp.copied = 1..Len(clamp.rows)
  /\ clamp' = [clamp EXCEPT !.pc = "done", !.ret = "column"]
  /\ StringFrame

\* the checked strings, limits and replacements
StrValues == {<<>>, <<1>>, <<2>>, <<2, 1>>}
StrLimits == {<<1>>, <<2>>}
NullScalar == [valid |-> FALSE, str |-> <<>>]
ValidScalars(strs) == {[valid |-> TRUE, str |-> x] : x \in strs}

\* rows of a string column: all valid when the column is not nullable
StringRows(n, nullable) ==
  [1..n -> {[valid |-> TRUE, str |-> x] : x \in StrValues}
             \cup (IF nullable THEN {NullScalar} ELSE {})]

\* the calls that reach clamp_string_column: a limit is valid, the input is
\* not empty and the replacement of a valid limit is valid
StringCalls ==
  {[pc |-> "strings", ret |-> "none", nullable |-> nullable, rows |-> rows,
    lo |-> lo, hi |-> hi, lo_replace |-> lor, hi_replace |-> hir,
    offsets |-> <<>>, chars |-> <<>>, copied |-> {}] :
     nullable \in BOOLEAN,
     rows \in UNION {StringRows(n, TRUE) : n \in 1..MaxClampRows},
     lo \in ValidScalars(StrLimits) \cup {NullScalar},
     hi \in ValidScalars(StrLimits) \cup {NullScalar},
     lor \in ValidScalars({<<>>, <<1, 1>>}) \cup {NullScalar},
     hir \in ValidScalars({<<>>, <<2, 2, 2>>}) \cup {NullScalar}}

\* ---- the checked inputs --------------------------------------------------
\* filters: the rows from lo on (lo = 0: every row, lo = n: no row), or the
\* rows congruent to r modulo a stride s
Filters(n) ==
  {lo..(n - 1) : lo \in 0..n} \cup
  {{i \in 0..(n - 1) : i % s = r} : s \in 2..MaxStride, r \in 0..(MaxStride - 1)}

\* null rows of the nullable columns: the rows congruent to r modulo a
\* stride s (s = 1: every row; r >= s: no row)
NullSets(n) ==
  {{i \in 0..(n - 1) : i % s = r} : s \in 1..MaxNullStride, r \in 0..(MaxNullStride - 1)}

\* column c of the checked tables is nullable iff c is odd
Nullable(nc) == {c \in 1..nc : c % 2 = 1}

\* copy_if(gdf_column) is called with one column, copy_if(table) with any
\* number of columns
Overloads(nc) == IF nc = 1 THEN {"table", "column"} ELSE {"table"}

\* nothing has been issued to the device and nothing has been returned
NothingIssued ==
  /\ col = 0
  /\ stream = <<>>
  /\ running = FALSE
  /\ block_counts = <<>>
  /\ block_offsets = <<>>
  /\ done_blocks = {}
  /\ blk = <<>>
  /\ null_count = [c \in 1..num_columns |-> Uninit]
  /\ last_block_count = 0
  /\ last_block_offset = 0
  /\ output_size = 0
  /\ output = <<>>
  /\ ret = "none"
  /\ issued = [k \in IssuedKinds |-> 0]
  /\ writes = {}
  /\ reads = {}
  /\ device_error = FALSE
  /\ col_ret = "none"
  /\ gathered = {}

\* the state at the entry of copy_if
CopyIfStart ==
  /\ pc = "entry"
  /\ NothingIssued

Init ==
  /\ \E n \in 0..MaxRows, nc \in 0..MaxCols :
       \E bad \in 0..nc, nulls \in NullSets(n), f \in Filters(n) :
           /\ input = [num_rows |-> n,
                       cols |-> [c \in 1..nc |->
                                   Column(c, n, c /= bad, c \in Nullable(nc),
                                          nulls)]]
           /\ filter = f
           /\ overload \in Overloads(nc)
  /\ CopyIfStart
  /\ clamp = NoClamp
  /\ threads = NoThreads

Next ==
  \/ EmptyInput
  \/ NullInputData
  \/ LaunchBlockCounts
  \/ IssueScan
  \/ GetOutputSizeIssue
  \/ GetOutputSizeSync
  \/ ReturnCopy
  \/ AllocateOutput
  \/ ReturnEmpty
  \/ ScatterColumn
  \/ ReadbackDone
  \/ ReturnOutput
  \/ ColumnReturn
  \/ \E b \in 0..(grid_num_blocks(MaxRows) - 1) : CountBlock(b)
  \/ DeviceScan
  \/ MemsetOffsets
  \/ CopyLastCount
  \/ CopyLastOffset
  \/ MemsetNullCount
  \/ CopyNullCount
  \/ BeginScatter
  \/ \E b \in 0..(grid_num_blocks(MaxRows) - 1) : StoreData(b)
  \/ \E b \in 0..(grid_num_blocks(MaxRows) - 1), wid \in 0..(num_warps - 1) :
       StoreValidWord(b, wid)
  \/ \E b \in 0..(grid_num_blocks(MaxRows) - 1) : StoreExtraWord(b)
  \/ \E b \in 0..(grid_num_blocks(MaxRows) - 1) : EndTile(b)

Spec == Init /\ [][Next]_vars

\* the executions in which the device may raise an error
NextFault ==
  \/ Next
  \/ DeviceFault
  \/ FlushFailed
  \/ CudaTryError

SpecFault == Init /\ [][NextFault]_vars

\* the calls of clamp
InitClamp ==
  /\ input = [num_rows |-> 0, cols |-> <<>>]
  /\ filter = {}
  /\ overload = "table"
  /\ CopyIfStart
  /\ clamp \in ClampCalls
  /\ threads = NoThreads

NextClamp ==
  \/ ClampTypeMismatch
  \/ ClampNoChange
  \/ ClampNullReplace
  \/ ClampDispatch
  \/ Clamper

SpecClamp == InitClamp /\ [][NextClamp]_vars

\* the filters and null rows of the checked block: every row, the rows from
\* an unaligned start in the first or second tile, no row, the odd rows; no
\* null row or the even rows null
BlockFilters(n) ==
  {lo..(n - 1) : lo \in {0, warp_size + 1, block_size + 1, n}}
    \cup {{i \in 0..(n - 1) : i % 2 = 1}}

BlockNulls(n) == {{}, {i \in 0..(n - 1) : i % 2 = 0}}

\* one block of scatter_kernel over a one-column table of one full block, its
\* threads taken one by one
InitBlock ==
  /\ \E kernel \in {"count", "scatter"} :
       \E has_valid \in (IF kernel = "count" THEN {FALSE} ELSE BOOLEAN) :
         \E nulls \in (IF has_valid THEN BlockNulls(block_size * per_thread)
                       ELSE {{}}),
            f \in BlockFilters(block_size * per_thread) :
              /\ input = [num_rows |-> block_size * per_thread,
                          cols |-> <<Column(1, block_size * per_thread, TRUE,
                                            has_valid, nulls)>>]
              /\ filter = f
              /\ threads = [kernel |-> kernel,
                            at |-> [t \in Lanes |-> 1],
                            i |-> [t \in Lanes |-> 0],
                            log |-> {}]
  /\ overload = "table"
  /\ pc = "kernel"
  /\ NothingIssued
  /\ clamp = NoClamp

NextBlock ==
  \/ \E t \in Lanes : ThreadStep(t)
  \/ SyncThreads

SpecBlock == InitBlock /\ [][NextBlock]_vars

\* the calls of copy_if whose termination is checked: no row, one block, two
\* blocks with a partial last tile; one or two columns
InitPipeline ==
  /\ \E n \in {0, block_size, block_size * per_thread + 1}, nc \in {1, 2} :
       \E bad \in 0..nc, nulls \in BlockNulls(n), f \in BlockFilters(n) :
           /\ input = [num_rows |-> n,
                       cols |-> [c \in 1..nc |->
                                   Column(c, n, c /= bad, c \in Nullable(nc),
                                          nulls)]]
           /\ filter = f
           /\ overload \in Overloads(nc)
  /\ CopyIfStart
  /\ clamp = NoClamp
  /\ threads = NoThreads

\* a call of copy_if, or the threads of one block of one of its kernels
InitLive == InitPipeline \/ InitBlock

NextLive == Next \/ NextBlock

\* the host runs and the device executes what is on the stream and schedules
\* the threads of a resident block: a step that stays possible is taken
SpecLive == InitLive /\ [][NextLive]_vars /\ WF_vars(NextLive)

\* the calls of clamp on a string column that reach clamp_string_column
InitStrings ==
  /\ input = [num_rows |-> 0, cols |-> <<>>]
  /\ filter = {}
  /\ overload = "table"
  /\ CopyIfStart
  /\ threads = NoThreads
  /\ clamp \in {c \in StringCalls :
                  /\ c.lo.valid \/ c.hi.valid
                  /\ c.lo.valid <=> c.lo_replace.valid
                  /\ c.hi.valid <=> c.hi_replace.valid
                  /\ c.nullable \/ \A i \in DOMAIN c.rows : c.rows[i].valid}

NextStrings ==
  \/ FormOffsets
  \/ \E idx \in 1..MaxClampRows : CopyString(idx)
  \/ MakeStringsColumn

SpecStrings == InitStrings /\ [][NextStrings]_vars

\* ---- properties ----------------------------------------------------------
\* the k-th smallest index for which the filter is true
KthTrue(k) == CHOOSE i \in filter : Cardinality({j \in filter : j < i}) = k

NumTrue == Cardinality(filter)

\* copy_if has returned a table
Returned == ret \in {"empty", "copy", "output"}

\* copy_if has returned the scattered table and the stream has drained
Scattered == ret = "output" /\ stream = <<>>

NoNullData == \A c \in 1..num_columns : input.cols[c].has_data

\* C1: for a table of n >= 1 rows and at least one column, the returned
\* table has as many rows as there are indices in [0, n) for which the
\* filter is true.
C1_RowCount ==
  (Returned /\ num_rows >= 1 /\ num_columns >= 1)
    => \A c \in 1..num_columns : output[c].size = NumTrue

C1_Witness ==
  /\ ret = "output"
  /\ num_blocks > 1
  /\ num_rows % (block_size * per_thread) /= 0
  /\ block_offsets[num_blocks - 1] > 0
  /\ output[1].size = NumTrue

\* C2: on the scatter path every column holds, at output row k, the input
\* value of that column at the k-th smallest index that passes the filter.
C2_RowFidelity ==
  Scattered
    => \A c \in 1..num_columns : \A k \in 0..(output_size - 1) :
         output[c].data[k] = input.cols[c].data[KthTrue(k)]

C2_Witness ==
  /\ Scattered
  /\ num_columns = 2
  /\ num_blocks = 2
  /\ \E k \in 1..(output_size - 1) : KthTrue(k) > KthTrue(k - 1) + 1
  /\ \A c \in 1..2 : output[c].data[output_size - 1] =
                       input.cols[c].data[KthTrue(output_size - 1)]

\* C3: on the scatter path, for every nullable column, output validity bit k
\* equals the input validity bit of the k-th index that passes the filter.
C3_NullFidelity ==
  Scattered
    => \A c \in 1..num_columns : is_nullable(c) =>
         \A k \in 0..(output_size - 1) :
           bit_is_set(output[c].valid, k) <=> is_valid(c, KthTrue(k))

\* C4: once a nullable column is scattered and its null count read back, the
\* output null_count is the number of zero bits among the output validity
\* bits [0, output_size).
C4_NullCount ==
  Scattered
    => \A c \in 1..num_columns : is_nullable(c) =>
         output[c].null_count =
           Cardinality({k \in 0..(output_size - 1) :
                          ~bit_is_set(output[c].valid, k)})

C4_Witness ==
  /\ Scattered
  /\ is_nullable(1)
  /\ output[1].null_count > 0
  /\ output[1].null_count /= input.cols[1].null_count
  /\ output[1].null_count =
       Cardinality({k \in 0..(output_size - 1) :
                      ~bit_is_set(output[1].valid, k)})

\* C5: when the filter is true for every row of a table whose columns all
\* have data, copy_if returns a full copy (data, validity, null_count),
\* launches no scatter kernel and never calls allocate_like.
C5_PassThrough ==
  (pc = "done" /\ num_rows >= 1 /\ NoNullData /\ filter = 0..(num_rows - 1))
    => /\ Returned
       /\ Len(output) = num_columns
       /\ \A c \in 1..num_columns :
            /\ output[c].size = num_rows
            /\ output[c].data = input.cols[c].data
            /\ output[c].has_valid = input.cols[c].has_valid
            /\ \A k \in 0..(num_rows - 1) :
                 input.cols[c].has_valid =>
                   (bit_is_set(output[c].valid, k) <=> is_valid(c, k))
            /\ output[c].null_count = input.cols[c].null_count
       /\ issued["scatter_kernel"] = 0
       /\ issued["allocate_like"] = 0

C5_Witness ==
  /\ ret = "copy"
  /\ num_columns = 2
  /\ num_blocks = 2
  /\ input.cols[1].null_count > 0
  /\ output[1].null_count = input.cols[1].null_count
  /\ filter = 0..(num_rows - 1)

\* C6: when the filter is false for every row of a table with n >= 1 rows
\* whose columns all have data, copy_if returns a table with no rows and the
\* columns and column types of the input, and launches no scatter kernel.
C6_EmptyResult ==
  (pc = "done" /\ num_rows >= 1 /\ NoNullData /\ filter = {})
    => /\ ret = "empty"
       /\ Len(output) = num_columns
       /\ \A c \in 1..num_columns :
            output[c].size = 0 /\ output[c].dtype = input.cols[c].dtype
       /\ issued["scatter_kernel"] = 0

C6_Witness ==
  /\ ret = "empty"
  /\ num_rows >= 1
  /\ num_columns = 2
  /\ filter = {}
  /\ issued["count_kernel"] = 1
  /\ output[2].dtype = input.cols[2].dtype

\* C7: for a table with no rows or no columns nothing is ever issued or
\* allocated on the device, no error is reported, and copy_if returns an
\* empty table with the columns and column types of the input.
C7_Degenerate ==
  (num_rows = 0 \/ num_columns = 0)
    => /\ stream = <<>>
       /\ block_counts = <<>> /\ block_offsets = <<>>
       /\ \A k \in IssuedKinds \ {"empty_like"} : issued[k] = 0
       /\ ret /= "error"
       /\ pc = "done" =>
            /\ ret = "empty"
            /\ Len(output) = num_columns
            /\ \A c \in 1..num_columns :
                 output[c].size = 0 /\ output[c].dtype = input.cols[c].dtype

C7_Witness ==
  /\ pc = "done"
  /\ ret = "empty"
  /\ num_rows > 0
  /\ num_columns = 0
  /\ filter /= {}

\* C8: for a table with rows in which some column has no data buffer,
\* nothing is ever issued or allocated on the device and copy_if ends with
\* an error, returning no table.
C8_NullData ==
  (num_rows /= 0 /\ ~NoNullData)
    => /\ stream = <<>>
       /\ block_counts = <<>> /\ block_offsets = <<>>
       /\ \A k \in IssuedKinds : issued[k] = 0
       /\ output = <<>>
       /\ ~Returned
       /\ pc = "done" => ret = "error"

C8_Witness ==
  /\ pc = "done"
  /\ ret = "error"
  /\ num_columns = 2
  /\ input.cols[1].has_data
  /\ ~input.cols[2].has_data
  /\ filter /= {}

\* ---- the result of the scatter as a function of the input ---------------
\* the output offset of tile i of block b: the rows that pass before it
TileOffset(b, i) == Cardinality({j \in filter : j < tid(b, i, 0)})

Tiles == Blocks \X (0..(per_thread - 1))

\* what tile (b, i) merges into validity word w of column c
TileWord(c, b, i, w) ==
  LET off == TileOffset(b, i)
      sum == block_sum(b, i)
      tv == stage_valids(c, b, i, off)
  IN UNION ({valid_warp(tv, wid) :
               wid \in {x \in 0..(num_warps - 1) :
                          active_warp(sum, x) /\ valid_index(off, x) = w}}
            \cup
            {IF /\ active_warp(sum, 0)
                /\ covers_extra_warp(sum, 0)
                /\ valid_index(off, 0) + num_warps = w
             THEN extra_warp(tv) ELSE {}})

MergedValid(c) ==
  [w \in 0..(num_valid_words(NumTrue) - 1) |->
     UNION {TileWord(c, t[1], t[2], w) : t \in Tiles}]

\* the valid bits tile (b, i) counts
TileValidCount(c, b, i) ==
  LET off == TileOffset(b, i)
      sum == block_sum(b, i)
      tv == stage_valids(c, b, i, off)
  IN Cardinality({x \in tv : active_warp(sum, x \div warp_size)})

RECURSIVE SumNulls(_, _)
SumNulls(c, ts) ==
  IF ts = {} THEN 0
  ELSE LET t == CHOOSE x \in ts : TRUE
       IN block_sum(t[1], t[2]) - TileValidCount(c, t[1], t[2])
          + SumNulls(c, ts \ {t})

\* C9: the scattered data, validity words and null count are the same
\* function of the input table and the filter, whatever the order in which
\* the blocks ran and their atomic operations interleaved.
C9_Deterministic ==
  Scattered
    => \A c \in 1..num_columns :
         /\ \A k \in 0..(output_size - 1) :
              output[c].data[k] = input.cols[c].data[KthTrue(k)]
         /\ is_nullable(c) =>
              /\ output[c].valid = MergedValid(c)
              /\ output[c].null_count = SumNulls(c, Tiles)

\* two blocks have merged bits into the same validity word
SharedWord ==
  \E x \in writes, y \in writes :
    x.kind = "valid" /\ y.kind = "valid" /\ x.idx = y.idx /\ x.b /= y.b

C9_Witness ==
  /\ Scattered
  /\ num_blocks = 2
  /\ SharedWord
  /\ output[1].null_count > 0

\* C10: a location written by two different tiles (of the same or of
\* different blocks) is the null counter or a validity word and all its
\* writes are atomic; hence a location written by a plain store is written
\* by one tile only and is never the target of an atomic operation of
\* another tile.
C10_SharedWrites ==
  \A x \in writes, y \in writes :
    (x.kind = y.kind /\ x.idx = y.idx /\ <<x.b, x.i>> /= <<y.b, y.i>>)
      => /\ x.kind \in {"null_count", "valid"}
         /\ x.atomic /\ y.atomic

C10_Witness ==
  /\ SharedWord
  /\ \E x \in writes : x.kind = "valid" /\ ~x.atomic
  /\ \E x \in writes, y \in writes :
       x.kind = "null_count" /\ y.kind = "null_count" /\ x.b /= y.b

\* ---- tiling ---------------------------------------------------------------
\* the (block, tile, lane) triples of the grid that handle row r
OwnersOf(r) ==
  {x \in Blocks \X (0..(per_thread - 1)) \X Lanes : tid(x[1], x[2], x[3]) = r}

\* C11: for n >= 1 the grid has ceil(n / (block_size * per_thread)) blocks
\* and every row in [0, n) belongs to exactly one (block, tile, lane); for
\* n = block_size * per_thread + 1 the scattered table has the row count and
\* the data of the selected rows, and the last block stores only the one
\* row it owns, at the last output index.
C11_Tiling ==
  /\ (pc = "scan" /\ num_rows >= 1)
       => /\ num_blocks * (block_size * per_thread) >= num_rows
          /\ (num_blocks - 1) * (block_size * per_thread) < num_rows
          /\ \A r \in 0..(num_rows - 1) : Cardinality(OwnersOf(r)) = 1
  /\ (Scattered /\ num_rows = block_size * per_thread + 1)
       => /\ \A c \in 1..num_columns :
               /\ output[c].size = NumTrue
               /\ \A k \in 0..(NumTrue - 1) :
                    output[c].data[k] = input.cols[c].data[KthTrue(k)]
          /\ \A x \in writes :
               (x.kind = "data" /\ x.b = num_blocks - 1)
                 => (num_rows - 1) \in filter /\ x.idx = NumTrue - 1

C11_Witness ==
  /\ Scattered
  /\ num_rows = block_size * per_thread + 1
  /\ (num_rows - 1) \in filter
  /\ \E x \in writes : x.kind = "data" /\ x.b = num_blocks - 1
  /\ output[1].data[NumTrue - 1] = input.cols[1].data[num_rows - 1]

\* ---- failures ------------------------------------------------------------
\* C12: when the device raises an error during the call, copy_if ends with
\* an error and returns no table.
C12_FailureAtomicity ==
  (pc = "done" /\ device_error) => ret = "error"

\* ---- what is complete when copy_if returns --------------------------------
\* work of kind name for column c is still on the stream
Pending(name, c) ==
  \E k \in 1..Len(stream) : stream[k].op = name /\ stream[k].c = c

\* C13 as stated: when copy_if returns the output table every scatter kernel
\* issued on the stream has completed and every null_count readback has
\* completed.
C13_NoIntermediateState ==
  ret = "output"
    => \A c \in 1..num_columns :
         ~Pending("scatter", c) /\ ~Pending("d2h_null_count", c)

\* C13 amended: when copy_if returns the output table every column's scatter
\* kernel has been issued exactly once; for every nullable column the kernel
\* and the readback have completed and the host null_count is the device
\* counter of that column; the only work that may still be on the stream is
\* the scatter kernel of non-nullable columns, and every column whose kernel
\* is no longer on the stream holds the data of the selected rows.
C13_IssuedAtReturn ==
  ret = "output"
    => /\ issued["scatter_kernel"] = num_columns
       /\ \A k \in 1..Len(stream) :
            stream[k].op = "scatter" /\ ~is_nullable(stream[k].c)
       /\ \A c \in 1..num_columns :
            /\ is_nullable(c)
                 => /\ null_count[c] /= Uninit
                    /\ output[c].null_count = null_count[c]
            /\ ~Pending("scatter", c)
                 => \A k \in 0..(output_size - 1) :
                      output[c].data[k] = input.cols[c].data[KthTrue(k)]

C13_Witness ==
  /\ ret = "output"
  /\ num_columns = 2
  /\ is_nullable(1)
  /\ output[1].null_count > 0
  /\ Pending("scatter", 2)
  /\ \E k \in 0..(output_size - 1) : output[2].data[k] = Uninit

\* ---- dictionary columns ---------------------------------------------------
\* the caller holds the filtered result
ReturnedToCaller ==
  \/ overload = "table" /\ Returned
  \/ overload = "column" /\ col_ret = "column"

\* C14: every category column of a scattered result returned to the caller
\* has had nvcategory_gather requested for it, through the table overload
\* as well as through the single-column overload.
C14_CategoryResync ==
  (ReturnedToCaller /\ ret = "output")
    => \A c \in 1..Len(output) : is_category(output[c]) => c \in gathered

\* ---- clamp ---------------------------------------------------------------
AllTypesEqual ==
  Cardinality({clamp.input.type, clamp.lo.type, clamp.hi.type,
               clamp.lo_replace.type, clamp.hi_replace.type}) = 1

\* a valid limit whose replacement is null
NullReplacement ==
  \/ clamp.lo.valid /\ ~clamp.lo_replace.valid
  \/ clamp.hi.valid /\ ~clamp.hi_replace.valid

FailedAtEntry ==
  /\ clamp.ret = "error"
  /\ ~clamp.dispatched /\ ~clamp.allocated /\ ~clamp.transformed

\* C15 as stated: clamp fails at entry, before any dispatch, transform or
\* allocation, when the five types are not all equal, and also when they
\* are equal and a valid limit has a null replacement.
C15_ClampPreconditions ==
  clamp.pc = "done"
    => /\ ~AllTypesEqual => FailedAtEntry
       /\ (AllTypesEqual /\ NullReplacement) => FailedAtEntry

\* C15 amended: clamp fails at entry when the five types are not all equal;
\* when they are equal, the input column is not empty and a valid limit has
\* a null replacement it fails before the dispatch; for an empty input with
\* equal types it returns a copy of the input and never looks at the
\* replacements.
C15_ClampPreconditionsNonEmpty ==
  clamp.pc = "done"
    => /\ ~AllTypesEqual => FailedAtEntry
       /\ (AllTypesEqual /\ NullReplacement /\ clamp.input.size > 0)
            => FailedAtEntry
       /\ (AllTypesEqual /\ clamp.input.size = 0)
            => clamp.ret = "copy" /\ ~clamp.dispatched

C15_Witness ==
  /\ clamp.pc = "done"
  /\ AllTypesEqual
  /\ clamp.input.size > 0
  /\ clamp.lo.valid /\ clamp.lo_replace.valid
  /\ clamp.hi.valid /\ ~clamp.hi_replace.valid
  /\ clamp.ret = "error"

\* ---- null count ------------------------------------------------------------
\* C16: once the scatter of a nullable column has finished, its global null
\* counter holds the number of selected rows that are null in the input.
C16_NullAccumulation ==
  Scattered
    => \A c \in 1..num_columns :
         is_nullable(c)
           => null_count[c] = Cardinality({i \in filter : ~is_valid(c, i)})

\* ---- pipeline order -------------------------------------------------------
\* operations of the given kinds that are issued and not yet executed
PendingOps(names) == {k \in 1..Len(stream) : stream[k].op \in names}

\* C17: the stages of copy_if happen in the order count kernel, scan (or zero
\* fill for one block), output-size synchronisation, allocation of the
\* destination, one scatter launch per column, return; nothing is allocated
\* or scattered before the synchronisation and no stage happens twice.
C17_PipelineOrder ==
  LET n(kind) == issued[kind]
      scans == n("scan") + n("memset_offsets")
  IN  /\ n("count_kernel") <= 1 /\ scans <= 1 /\ n("sync") <= 1
      /\ n("allocate_like") <= 1 /\ n("scatter_kernel") <= num_columns
      /\ scans = 1 => n("count_kernel") = 1
      /\ n("scan") = 1 => num_blocks > 1
      /\ n("memset_offsets") = 1 => num_blocks = 1
      /\ n("sync") = 1
           => /\ scans = 1
              /\ PendingOps({"count", "scan", "memset_offsets", "d2h_count",
                             "d2h_offset"}) = {}
      /\ n("allocate_like") = 1 => n("sync") = 1
      /\ n("scatter_kernel") > 0
           => n("allocate_like") = 1 /\ n("scatter_kernel") = col - 1
      /\ ret = "output"
           => n("allocate_like") = 1 /\ n("scatter_kernel") = num_columns

\* a two-column, two-block call has returned its scattered output
C17_Witness ==
  /\ ret = "output"
  /\ num_columns = 2
  /\ num_blocks = 2
  /\ issued["scan"] = 1
  /\ issued["sync"] = 1
  /\ issued["scatter_kernel"] = 2

\* ---- compute_block_counts ---------------------------------------------------
\* the rows of block b: [b*block_size*per_thread, (b+1)*block_size*per_thread)
BlockRows(b) ==
  (b * block_size * per_thread)..((b + 1) * block_size * per_thread - 1)

CountKernelDone ==
  issued["count_kernel"] = 1 /\ PendingOps({"count"}) = {}

\* a step in which a block of compute_block_counts finishes
CountStep ==
  /\ stream /= <<>>
  /\ Head(stream).op = "count"
  /\ done_blocks' /= done_blocks \/ stream' = Tail(stream)

\* C18: after compute_block_counts, block_counts[b] is the number of rows of
\* block b for which the predicate is true, and a block of the kernel writes
\* block_counts[b], once, and nothing else.
C18_BlockCounts ==
  /\ [](CountKernelDone
          => \A b \in Blocks :
               block_counts[b] = Cardinality(BlockRows(b) \cap filter))
  /\ [][CountStep
          => /\ \E b \in Blocks \ done_blocks :
                  /\ done_blocks' = IF done_blocks \cup {b} = Blocks
                                    THEN {} ELSE done_blocks \cup {b}
                  /\ \A a \in Blocks \ {b} :
                       block_counts'[a] = block_counts[a]
             /\ UNCHANGED <<block_offsets, null_count, output, blk, writes,
                            last_block_count, last_block_offset>>]_vars

\* two blocks have been counted, both with passing rows, and block 0 has
\* passing rows in its second tile
C18_Witness ==
  /\ CountKernelDone
  /\ num_blocks = 2
  /\ block_counts[0] > 0
  /\ block_counts[1] > 0
  /\ \E i \in filter : block_size <= i /\ i < 2 * block_size

\* ---- block offsets ---------------------------------------------------------
ScanDone ==
  /\ issued["scan"] + issued["memset_offsets"] = 1
  /\ PendingOps({"count", "scan", "memset_offsets"}) = {}

\* the sum of block_counts over the blocks of S
RECURSIVE SumCounts(_)
SumCounts(S) ==
  IF S = {} THEN 0
  ELSE LET j == CHOOSE x \in S : TRUE
       IN  block_counts[j] + SumCounts(S \ {j})

\* the output rows [block_offsets[b], block_offsets[b] + block_counts[b])
OutRange(b) == block_offsets[b]..(block_offsets[b] + block_counts[b] - 1)

\* C19: after the scan stage block_offsets[i] is the sum of block_counts[j]
\* over j < i; with a single block no scan runs and the offset used by
\* get_output_size and by scatter_kernel is 0; the output ranges of the
\* blocks are pairwise disjoint and cover [0, output_size) exactly.
C19_BlockOffsets ==
  ScanDone
    => /\ \A i \in Blocks :
            block_offsets[i] = SumCounts({j \in Blocks : j < i})
       /\ num_blocks = 1
            => /\ issued["scan"] = 0
               /\ last_block_offset = 0
               /\ (running /\ blk[0].i = 0) => blk[0].block_offset = 0
       /\ \A i, j \in Blocks : i /= j => OutRange(i) \cap OutRange(j) = {}
       /\ UNION {OutRange(b) : b \in Blocks} = 0..(SumCounts(Blocks) - 1)
       /\ issued["sync"] = 1 => output_size = SumCounts(Blocks)

\* two blocks with passing rows each: the offsets are scanned and the output
\* size has been read back
C19_Witness ==
  /\ ScanDone
  /\ issued["scan"] = 1
  /\ issued["sync"] = 1
  /\ block_counts[0] > 0
  /\ block_counts[1] > 0
  /\ block_offsets[1] = block_counts[0]
  /\ output_size = block_counts[0] + block_counts[1]

\* ---- scratch arrays and barriers ---------------------------------------------
Scratch == {"temp_data", "temp_valids", "warp_valid_counts"}

\* the steps of tile i in which thread u accesses arr in one of the kinds
StepsWith(u, arr, kinds, i) ==
  {k \in 1..Len(tile_steps(is_nullable(1))) :
     \E a \in accesses(tile_steps(is_nullable(1))[k], i, u) :
       a.arr = arr /\ a.kind \in kinds}

\* thread u has executed every such step of tile i
Finished(u, arr, kinds, i) ==
  \/ threads.i[u] > i
  \/ /\ threads.i[u] = i
     /\ \A k \in StepsWith(u, arr, kinds, i) : threads.at[u] > k

\* C20: within a block, in both specialisations, no thread reads a scratch
\* array in a tile before every thread has finished initialising and staging
\* it for that tile, and no thread initialises or overwrites it for the next
\* tile before every thread has finished reading it for the tile.
C20_BarrierProtocol ==
  \A a \in threads.log :
    /\ a.kind = "r"
         => \A u \in Lanes : Finished(u, a.arr, {"w", "u"}, a.i)
    /\ (a.kind = "w" /\ a.i > 0)
         => \A u \in Lanes : Finished(u, a.arr, {"r", "u"}, a.i - 1)

\* a nullable block in its second tile: a thread has initialised temp_valids
\* again after another thread read the three scratch arrays in the first tile
C20_Witness ==
  /\ threads.at /= <<>>
  /\ is_nullable(1)
  /\ \E a \in threads.log : a.arr = "temp_valids" /\ a.kind = "w" /\ a.i = 1
  /\ \A arr \in Scratch :
       \E a \in threads.log : a.arr = arr /\ a.kind = "r" /\ a.i = 0
  /\ \E a \in threads.log : a.kind = "u" /\ a.i = 0

\* a non-nullable block in its second tile: a thread has staged temp_data
\* again after another thread read it in the first tile
C20_WitnessNoValidity ==
  /\ threads.at /= <<>>
  /\ ~is_nullable(1)
  /\ \E a, b \in threads.log :
       /\ a.arr = "temp_data" /\ a.kind = "w" /\ a.i = 1
       /\ b.arr = "temp_data" /\ b.kind = "r" /\ b.i = 0 /\ b.t /= a.t

\* ---- the specialisation without validity ------------------------------------
NoValidity(c) == ~input.cols[c].has_valid

\* the latest kernel is the scatter of column c
LoggedColumn(c) == \E r \in reads : r.c = c

\* the input row whose value is in output row k of column c
SourceRow(c, k) ==
  CHOOSE i \in 0..(num_rows - 1) : input.cols[c].data[i] = output[c].data[k]

\* C21: for a column without validity buffer the scatter allocates no null
\* counter, reads no input validity, writes no output validity word, does no
\* atomic operation and no null_count readback, and leaves the output
\* null_count as allocated; its data placement is that of the nullable
\* specialisation.
C21_NonNullable ==
  /\ issued["alloc_null_count"]
       = Cardinality({d \in 1..num_columns : d < col /\ ~NoValidity(d)})
  /\ \A c \in 1..num_columns :
       NoValidity(c)
         => /\ null_count[c] = Uninit
            /\ \A k \in 1..Len(stream) :
                 stream[k].c = c => stream[k].op = "scatter"
            /\ LoggedColumn(c)
                 => /\ \A r \in reads : r.kind /= "valid"
                    /\ \A w \in writes : w.kind = "data" /\ ~w.atomic
            /\ issued["allocate_like"] = 1
                 => output[c].valid = <<>> /\ output[c].null_count = 0
  /\ \A w \in writes :
       w.kind = "data"
         => /\ TileOffset(w.b, w.i) <= w.idx
            /\ w.idx < TileOffset(w.b, w.i) + block_sum(w.b, w.i)
  /\ Scattered
       => \A c, d \in 1..num_columns : \A k \in 0..(output_size - 1) :
            SourceRow(c, k) = SourceRow(d, k)

\* a nullable and a non-nullable column of two blocks have been scattered, the
\* nullable one with null rows in its output
C21_Witness ==
  /\ Scattered
  /\ num_columns = 2
  /\ num_blocks = 2
  /\ ~NoValidity(1) /\ NoValidity(2)
  /\ LoggedColumn(2)
  /\ \E w \in writes : w.b = 1
  /\ output[1].null_count > 0
  /\ output[2].null_count = 0

\* ---- what the scatter leaves alone ---------------------------------------------
ScatterRunning == stream /= <<>> /\ Head(stream).op = "scatter" /\ running

\* C22: throughout copy_if the input table and the filter are never written;
\* once the output size has been read back, block_counts and block_offsets
\* never change, and the private offset of a block in the scatter of any
\* column is the block's offset advanced by the tiles it has finished, so
\* every column starts from the same offsets.
C22_ScatterFrame ==
  /\ [](ScatterRunning
          => \A b \in Blocks :
               /\ blk[b].block_offset = TileOffset(b, blk[b].i)
               /\ blk[b].block_offset
                    = block_offsets[b]
                      + Cardinality({j \in filter :
                                       /\ tid(b, 0, 0) <= j
                                       /\ j < tid(b, blk[b].i, 0)}))
  /\ [][/\ input' = input
        /\ filter' = filter
        /\ issued["sync"] = 1
             => UNCHANGED <<block_counts, block_offsets>>]_vars

\* the second column of a two-block table is being scattered and block 1 has
\* advanced its private offset past its first tile
C22_Witness ==
  /\ ScatterRunning
  /\ Head(stream).c = 2
  /\ num_blocks = 2
  /\ block_offsets[1] > 0
  /\ blk[1].i = 1
  /\ blk[1].block_offset > block_offsets[1]

\* ---- filter calls and input loads ----------------------------------------------
\* the latest kernel has finished and its log is complete
LogComplete ==
  /\ reads /= {}
  /\ ~running
  /\ ~(stream /= <<>> /\ Head(stream).op = "count")

\* the filter calls of the latest kernel, and those for one index
FilterReads == {r \in reads : r.kind = "filter"}
FilterCalls(idx) == {r \in FilterReads : r.idx = idx}

\* C23: with a filter that is false for every index >= num_rows, no kernel
\* loads input data or input validity at an index >= num_rows, although the
\* filter is called for indices up to num_blocks*block_size*per_thread - 1;
\* each index below num_rows has the filter called exactly once per kernel.
C23_InBoundsReads ==
  (\A j \in filter : j < num_rows)
    => /\ \A r \in reads :
            /\ r.kind \in {"data", "valid"} => r.idx < num_rows
            /\ r.idx <= num_blocks * block_size * per_thread - 1
       /\ {r.idx : r \in reads} \subseteq {r.idx : r \in FilterReads}
       /\ Cardinality(FilterReads) = Cardinality({r.idx : r \in FilterReads})
       /\ LogComplete
            => \A idx \in 0..(num_blocks * block_size * per_thread - 1) :
                 Cardinality(FilterCalls(idx)) = 1

\* a scatter of two blocks has finished: the filter was called beyond the
\* last row, and the last row passed and was loaded
C23_Witness ==
  /\ LogComplete
  /\ num_blocks = 2
  /\ \E r \in reads : r.kind = "filter" /\ r.idx > num_rows
  /\ \E r \in reads : r.kind = "data" /\ r.idx = num_rows - 1
  /\ \E r \in reads : r.kind = "valid" /\ r.idx = num_rows - 1

\* ---- index bounds ----------------------------------------------------------------
\* C24: in scatter_kernel every index into temp_data is below block_size,
\* every index into temp_valids is below block_size + warp_size, every store
\* to output_data has an index below output_size, and every store or atomic
\* OR to output_valid has a word index of at most (output_size - 1) /
\* warp_size, the extra word of a full tile included.
C24_IndexBounds ==
  ScatterRunning
    => /\ \A b \in Blocks :
            blk[b].i < per_thread
              => /\ \A t \in Pass(b, blk[b].i) :
                      block_scan_mask(b, blk[b].i, t) \in 0..(block_size - 1)
                 /\ storing_threads(blk[b].block_sum)
                      \subseteq 0..(block_size - 1)
                 /\ blk[b].temp_valids
                      \subseteq 0..(block_size + warp_size - 1)
                 /\ \A t \in Pass(b, blk[b].i) :
                      (block_scan_mask(b, blk[b].i, t)
                         + (blk[b].block_offset % warp_size))
                        \in 0..(block_size + warp_size - 1)
       /\ \A w \in writes :
            /\ w.kind = "data" => w.idx \in 0..(output_size - 1)
            /\ w.kind = "valid"
                 => w.idx \in 0..((output_size - 1) \div warp_size)

\* the extra word of a full, unaligned tile has been merged, the last output
\* row has been stored, and the highest index of temp_valids that a thread
\* can stage (block_size - 1 plus warp_size - 1) is set
C24_Witness ==
  /\ ScatterRunning
  /\ \E w \in writes :
       /\ w.kind = "valid"
       /\ w.idx = valid_index(TileOffset(w.b, w.i), 0) + num_warps
  /\ \E w \in writes : w.kind = "data" /\ w.idx = output_size - 1
  /\ \E b \in Blocks : (block_size + warp_size - 2) \in blk[b].temp_valids

\* ---- validity soundness ------------------------------------------------------------
\* the bits of the words of a mask
BitsOf(words) ==
  {w * warp_size + lane : w \in DOMAIN words, lane \in 0..(warp_size - 1)}

\* C25: the destination mask being zero when the scatter starts, in every
\* state of the scatter an output validity bit k is set only if k is below
\* output_size and the k-th selected input row is valid: no store and no
\* atomic OR sets the bit of a null selected row, of another block's null row
\* or of a padding position.
C25_ValiditySound ==
  issued["allocate_like"] = 1
    => \A c \in 1..num_columns :
         is_nullable(c)
           => \A k \in BitsOf(output[c].valid) :
                bit_is_set(output[c].valid, k)
                  => k < output_size /\ is_valid(c, KthTrue(k))

\* a nullable column of two blocks has been scattered: its last word has
\* padding, a row of block 1 is valid in the output and a selected null row
\* is null in the output
C25_Witness ==
  /\ Scattered
  /\ num_blocks = 2
  /\ is_nullable(1)
  /\ output_size % warp_size /= 0
  /\ \E k \in 0..(output_size - 1) :
       /\ bit_is_set(output[1].valid, k)
       /\ KthTrue(k) >= block_size * per_thread
  /\ \E k \in 0..(output_size - 1) :
       ~bit_is_set(output[1].valid, k) /\ ~is_valid(1, KthTrue(k))

\* ---- barriers and termination ------------------------------------------------------
ThreadsActive == threads.kernel /= "none"

\* the barriers thread t has passed
SyncsPassed(t) ==
  threads.i[t] * Cardinality({k \in DOMAIN kernel_steps :
                                kernel_steps[k] \in Barriers})
    + Cardinality({k \in 1..(threads.at[t] - 1) :
                     kernel_steps[k] \in Barriers})

\* thread u has executed the stores and ballots of tile i
PastStore(u, i) ==
  \/ threads.i[u] > i
  \/ /\ threads.i[u] = i
     /\ \E k \in 1..(threads.at[u] - 1) : kernel_steps[k] = "store"

\* the ballots: "__ballot_sync(0xffffffff, temp_valids[...])"
Ballots == {a \in threads.log : a.arr = "temp_valids" /\ a.kind = "r"}

AllExited ==
  ThreadsActive /\ \A t \in Lanes : threads.i[t] = per_thread

\* C26: in compute_block_counts and scatter_kernel all threads of a block
\* pass the same barriers in every tile and a ballot is executed by every
\* lane of its warp, so no block deadlocks at a barrier, every block ends
\* after exactly per_thread tiles, and copy_if reaches its final state.
C26_BarrierTermination ==
  /\ [](ThreadsActive
          => /\ \A t, u \in Lanes : SyncsPassed(t) = SyncsPassed(u)
             /\ \A t \in Lanes : threads.i[t] <= per_thread
             /\ \A a \in Ballots : \A u \in Lanes :
                  (u \div warp_size = a.t \div warp_size /\ PastStore(u, a.i))
                    => \E x \in Ballots : x.t = u /\ x.i = a.i)
  /\ (ThreadsActive ~> AllExited)
  /\ (~ThreadsActive ~> pc = "done")

\* the threads of a nullable scatter block have all left the loop, after
\* ballots in the second tile
C26_Witness ==
  /\ AllExited
  /\ threads.kernel = "scatter"
  /\ is_nullable(1)
  /\ \E a \in Ballots : a.i = per_thread - 1

\* ---- string clamp: offsets and chars ---------------------------------------------
\* the bytes of the chars child written by row i
BytesOf(i) == {k \in DOMAIN clamp.chars : i \in clamp.chars[k].by}

\* the byte length of output row i, 0 for a null row
OutLen(i) ==
  IF clamp.rows[i].valid THEN Len(clamped(clamp.rows[i].str)) ELSE 0

RECURSIVE SumOutLen(_)
SumOutLen(k) == IF k = 0 THEN 0 ELSE SumOutLen(k - 1) + OutLen(k)

\* C27: in clamp_string_column the bytes written for row i are exactly
\* offsets[i+1] - offsets[i], a null row takes no bytes, the chars size is the
\* sum of the lengths of the non-null output strings and every byte is
\* written by exactly one row, in all three branches, nullable or not.
C27_StringLayout ==
  clamp.pc = "done"
    => /\ \A i \in 1..Len(clamp.rows) :
            /\ Cardinality(BytesOf(i)) = clamp.offsets[i] - clamp.offsets[i - 1]
            /\ ~clamp.rows[i].valid => clamp.offsets[i] = clamp.offsets[i - 1]
       /\ clamp.offsets[Len(clamp.rows)] = SumOutLen(Len(clamp.rows))
       /\ \A k \in DOMAIN clamp.chars : Cardinality(clamp.chars[k].by) = 1

====
